---------------------------- MODULE Spec2Model ----------------------------
(***************************************************************************)
(* A model of src/unified/atlas_recall.py: the markdown chunker            *)
(* (chunk_markdown), the incremental indexer (index_file, index_all with   *)
(* the persisted index state) and the multi-backend recall pipeline        *)
(* (recall, recall_unified).                                               *)
(*                                                                         *)
(* Python strings are modelled run-length encoded: a string is a sequence  *)
(* of runs [ch |-> c, n |-> k] (k >= 1 copies of the character c), no two  *)
(* adjacent runs carrying the same character.  Lengths, slices, split and  *)
(* join are computed on that form, so the program's numeric constants      *)
(* (200, 1000, 100, 500, 2000) keep their values.                          *)
(***************************************************************************)
EXTENDS Integers, Sequences, FiniteSets, Bags, TLC

(***************************************************************************)
(* Strings                                                                 *)
(***************************************************************************)
NL == "\n"

Run(c, k) == [ch |-> c, n |-> k]

\* a string of k >= 0 copies of c
Rep(c, k) == IF k <= 0 THEN << >> ELSE << Run(c, k) >>

\* s + t
Cat(s, t) ==
    IF s = << >> THEN t
    ELSE IF t = << >> THEN s
    ELSE IF s[Len(s)].ch = t[1].ch
         THEN SubSeq(s, 1, Len(s) - 1)
              \o << Run(t[1].ch, s[Len(s)].n + t[1].n) >>
              \o Tail(t)
         ELSE s \o t

\* len(s)
RECURSIVE StrLen(_)
StrLen(s) == IF s = << >> THEN 0 ELSE s[1].n + StrLen(Tail(s))

\* s[:k]
RECURSIVE Take(_, _)
Take(s, k) ==
    IF k <= 0 \/ s = << >> THEN << >>
    ELSE IF s[1].n >= k THEN << Run(s[1].ch, k) >>
    ELSE << s[1] >> \o Take(Tail(s), k - s[1].n)

\* s.startswith(c)
StartsWith(s, c) == s # << >> /\ s[1].ch = c

\* s.lstrip(c)
LStrip(s, c) == IF StartsWith(s, c) THEN Tail(s) ELSE s

\* s.rstrip(c)
RStrip(s, c) ==
    IF s # << >> /\ s[Len(s)].ch = c THEN SubSeq(s, 1, Len(s) - 1) ELSE s

\* s.strip(): the model's only whitespace inside a line is the blank
Strip(s) == RStrip(LStrip(s, " "), " ")

\* sep.join(parts)
RECURSIVE JoinSep(_, _)
JoinSep(parts, sep) ==
    IF parts = << >> THEN << >>
    ELSE IF Len(parts) = 1 THEN parts[1]
    ELSE Cat(Cat(parts[1], sep), JoinSep(Tail(parts), sep))

\* s.split('\n'): always at least one piece
RECURSIVE SplitFrom(_, _)
SplitFrom(s, cur) ==
    IF s = << >> THEN << cur >>
    ELSE IF s[1].ch = NL
         THEN << cur >>
              \o [i \in 1..(s[1].n - 1) |-> << >>]
              \o SplitFrom(Tail(s), << >>)
         ELSE SplitFrom(Tail(s), cur \o << s[1] >>)

Split(s) == SplitFrom(s, << >>)

Min(a, b) == IF a <= b THEN a ELSE b

Range(f) == {f[i] : i \in DOMAIN f}

\* the sequences over S of length at most k
SeqsUpTo(S, k) == UNION {[1..m -> S] : m \in 0..k}

RECURSIVE SumLen(_)
SumLen(ls) == IF ls = << >> THEN 0 ELSE StrLen(ls[1]) + SumLen(Tail(ls))

(***************************************************************************)
(* chunk_markdown                                                          *)
(***************************************************************************)
DEFAULT_CHUNK_SIZE == 1000
DEFAULT_OVERLAP == 100
FLUSH_THRESHOLD == 200
OVERLAP_LINES == 3

\* the loop's locals before the first line
ChunkStart ==
    [chunks |-> << >>, current_chunk |-> << >>,
     current_headers |-> << >>, current_size |-> 0]

\* chunks.append({...}) followed by "Keep overlap"
Flush(st) ==
    LET overlap_lines ==
            IF Len(st.current_chunk) > OVERLAP_LINES
            THEN SubSeq(st.current_chunk,
                        Len(st.current_chunk) - OVERLAP_LINES + 1,
                        Len(st.current_chunk))
            ELSE st.current_chunk
    IN [st EXCEPT
          !.chunks = Append(@, [text    |-> JoinSep(st.current_chunk, Rep(NL, 1)),
                                headers |-> JoinSep(st.current_headers,
                                                    << Run(" ", 1), Run(">", 1), Run(" ", 1) >>),
                                size    |-> st.current_size]),
          !.current_chunk = overlap_lines,
          !.current_size = SumLen(overlap_lines)]

\* the "if line.startswith('#')" block
HeaderStep(st, line) ==
    IF StartsWith(line, "#")
    THEN LET level       == StrLen(line) - StrLen(LStrip(line, "#"))
             header_text == Strip(LStrip(line, "#"))
             flushed     == IF st.current_size > FLUSH_THRESHOLD THEN Flush(st) ELSE st
         IN [flushed EXCEPT
               !.current_headers =
                   SubSeq(@, 1, IF level - 1 < Len(@) THEN level - 1 ELSE Len(@))
                   \o << header_text >>]
    ELSE st

\* one iteration of "for line in lines"
ChunkStep(st, line, chunk_size) ==
    LET h == HeaderStep(st, line)
        a == [h EXCEPT !.current_chunk = Append(@, line),
                       !.current_size = @ + StrLen(line)]
    IN IF a.current_size >= chunk_size THEN Flush(a) ELSE a

RECURSIVE ChunkLoop(_, _, _)
ChunkLoop(lines, st, chunk_size) ==
    IF lines = << >> THEN st
    ELSE ChunkLoop(Tail(lines), ChunkStep(st, lines[1], chunk_size), chunk_size)

\* "Final chunk"
ChunkFinal(st) == IF st.current_chunk # << >> THEN Flush(st).chunks ELSE st.chunks

\* the chunker run over all lines but the last (an off-by-one loop bound)
chunk_markdown_short(content, chunk_size, overlap) ==
    LET lines == Split(content)
    IN ChunkFinal(ChunkLoop(SubSeq(lines, 1, Len(lines) - 1), ChunkStart, chunk_size))

chunk_markdown(content, chunk_size, overlap) ==
    ChunkFinal(ChunkLoop(Split(content), ChunkStart, chunk_size))


(***************************************************************************)
(* State                                                                   *)
(***************************************************************************)
VARIABLES
    disk,          \* path -> the file's content, or Absent
    index_state,   \* the content of INDEX_STATE (index_state.json)
    chroma,        \* the "atlas_memory" collection: a bag of stored chunks
    archival,      \* the passages posted to the Letta agent's archival memory
    letta,         \* self.letta and self.letta_agent_id are set
    call,          \* history: the last call made since the corpus was last edited
    lastIndexed,   \* history: path -> the file as its last completed index_file call read it
    writes,        \* history: the number of edits of the corpus so far
    faults,        \* history: the number of faults the collaborators raised so far
    mem0_hits,     \* what self.mem0.search finds for the query, best first
    chroma_hits,   \* what self.chroma.query finds for the query, nearest first
    letta_hits,    \* what the archival search finds for the query
    doc,           \* the arguments of a chunk_markdown call
    passes         \* the index_file calls in progress: caller -> its locals

vars == << disk, index_state, chroma, archival, letta, call, lastIndexed,
           writes, faults, mem0_hits, chroma_hits, letta_hits, doc, passes >>

recallVars == << mem0_hits, chroma_hits, letta_hits >>

\* a file of the file system: Absent when the path does not exist
File(content) == [exists |-> TRUE, content |-> content]
Absent == [exists |-> FALSE, content |-> << >>]

\* null or a value, as a sequence of at most one element
None == << >>
Some(v) == << v >>

\* run: how many calls in a row, this one included, were completed forced
\* passes over this file
NoCall == [op |-> "none", path |-> "", force |-> FALSE, raised |-> FALSE,
           ret |-> 0, run |-> 0]

\* the callers that may be inside index_file at the same time
MaxPasses == 2
Procs == 1..MaxPasses

\* the locals of a caller that is not inside index_file
Idle == [pc |-> "idle", path |-> "", force |-> FALSE, state |-> None,
         file_hash |-> 0, existing |-> EmptyBag, i |-> 0, old |-> EmptyBag,
         exc |-> None, ret |-> 0]

NoPasses == [q \in Procs |-> Idle]

(***************************************************************************)
(* get_file_hash, load_index_state, save_index_state                       *)
(***************************************************************************)
Alphabet == << NL, " ", "#", ">", "x", "y", "z", "S", "T", "A", "B", "C" >>

CharCode(c) == CHOOSE i \in 1..Len(Alphabet) : Alphabet[i] = c

\* hashlib.md5(data).hexdigest(): a digest folded over the bytes, run by run.
\* Equal data give equal digests; distinct data may collide, as with md5.
RECURSIVE DigestFrom(_, _)
DigestFrom(s, h) ==
    IF s = << >> THEN h
    ELSE DigestFrom(Tail(s), ((h * 31 + CharCode(s[1].ch)) * 31 + s[1].n) % 1000003)

md5(data) == DigestFrom(data, 7)

\* get_file_hash(path), given the bytes of the file
get_file_hash(content) == md5(content)

EmptyState == [files |-> << >>, last_full_index |-> None]

\* state["files"].get(file_key)
FilesGet(state, file_key) ==
    IF file_key \in DOMAIN state.files THEN Some(state.files[file_key]) ELSE None

\* the assignment lost: the state is saved as it was loaded
FilesSet_dropped(state, file_key, file_hash) == state

\* state["files"][file_key] = file_hash
FilesSet(state, file_key, file_hash) ==
    [state EXCEPT !.files =
        [k \in DOMAIN state.files \cup {file_key} |->
            IF k = file_key THEN file_hash ELSE state.files[k]]]

(***************************************************************************)
(* The corpus                                                              *)
(***************************************************************************)
FirstFile == "clawd/memory/a.md"
MEMORY_FILE == "clawd/MEMORY.md"
DirFiles    == {"clawd/memory/a.md", "clawd/memory/b.md"}
Paths       == {MEMORY_FILE} \cup DirFiles

\* path.name
NameOf(path) ==
    CASE path = MEMORY_FILE -> "MEMORY.md"
      [] path = "clawd/memory/a.md" -> "a.md"
      [] path = "clawd/memory/b.md" -> "b.md"

\* the place of a path in the order sorted() puts Path objects in
SortKey(path) ==
    CASE path = "clawd/memory/a.md" -> 1
      [] path = "clawd/memory/b.md" -> 2
      [] OTHER -> 0

\* sorted(S)
RECURSIVE Sorted(_)
Sorted(S) ==
    IF S = {} THEN << >>
    ELSE LET m == CHOOSE p \in S : \A q \in S : SortKey(p) <= SortKey(q)
         IN << m >> \o Sorted(S \ {m})

Str(t) == [i \in 1..Len(t) |-> Run(t[i][1], t[i][2])]

\* "# T", 250 x, "## S", 30 x: two chunks (the second heading flushes the first)
DocTwo == JoinSep(<< Str(<< <<"#", 1>>, <<" ", 1>>, <<"T", 1>> >>),
                     Rep("x", 250),
                     Str(<< <<"#", 2>>, <<" ", 1>>, <<"S", 1>> >>),
                     Rep("x", 30) >>, Rep(NL, 1))

\* the content with its last character changed (x <-> y)
FlipChar(content) ==
    LET last == content[Len(content)].ch
    IN Cat(Take(content, StrLen(content) - 1), Rep(IF last = "x" THEN "y" ELSE "x", 1))

\* the contents an editor gives a file
DocPool == {DocTwo, FlipChar(DocTwo)}

\* get_file_hash and chunk_markdown(content) of the contents, computed once
HashTable  == [d \in DocPool |-> get_file_hash(d)]
ChunkTable == [d \in DocPool |-> chunk_markdown(d, DEFAULT_CHUNK_SIZE, DEFAULT_OVERLAP)]

\* chunk_markdown(content), as index_file calls it
ChunksOf(content) == ChunkTable[content]


(***************************************************************************)
(* Faults of the collaborators during one index_file call                  *)
(***************************************************************************)
\* read: load_index_state, get_file_hash or read_text raises
\* del:  chroma.get / chroma.delete raises (caught by index_file and dropped)
\* add:  the add-th chroma.add raises (0: none does)
\* save: save_index_state raises before it writes
NoFault == [read |-> FALSE, del |-> FALSE, add |-> 0, save |-> FALSE]

MaxChunks == CHOOSE n \in 0..16 : /\ \A d \in DocPool : Len(ChunksOf(d)) <= n
                                  /\ \E d \in DocPool : Len(ChunksOf(d)) = n

Faults ==
    {NoFault, [NoFault EXCEPT !.read = TRUE]}
    \cup {[NoFault EXCEPT !.del = d, !.add = k] : d \in BOOLEAN, k \in 1..MaxChunks}
    \cup {[NoFault EXCEPT !.del = d, !.save = s] : d, s \in BOOLEAN}

\* the number of collaborator calls that raise under a fault
Weight(fault) ==
    (IF fault.read THEN 1 ELSE 0) + (IF fault.del THEN 1 ELSE 0)
    + (IF fault.add > 0 THEN 1 ELSE 0) + (IF fault.save THEN 1 ELSE 0)

(***************************************************************************)
(* index_file                                                              *)
(***************************************************************************)
ARCHIVAL_SUMMARY_CHARS == 2000

\* the chunks of the collection whose metadata has source_file = path
ChunksFor(store, path) == {r \in DOMAIN store : r.source_file = path}

\* self.chroma.get(where={"source_file": str(path)}): the part of the collection
GetFor(store, path) == [r \in ChunksFor(store, path) |-> store[r]]

\* the number of chunks stored for path
CountFor(store, path) == BagCardinality(GetFor(store, path))

\* the delete without the where filter of the get before it: every chunk goes
DeleteFor_all(store, path) == EmptyBag

\* self.chroma.delete(ids=existing["ids"])
DeleteFor(store, path) == [r \in DOMAIN store \ ChunksFor(store, path) |-> store[r]]

\* the document and metadata of chunk i (chunk_index i - 1) of a pass; the ids
\* (stem, index, timestamp) are distinct, which the bag's counts stand for
StoredChunk(path, chunks, i) ==
    [source_file |-> path, chunk_index |-> i - 1,
     document |-> chunks[i].text, headers |-> chunks[i].headers]

\* the first n self.chroma.add calls of a pass
RECURSIVE AddChunks(_, _, _, _)
AddChunks(store, path, chunks, n) ==
    IF n = 0 THEN store
    ELSE AddChunks(store, path, chunks, n - 1) (+) SetToBag({StoredChunk(path, chunks, n)})

\* what a completed pass over content puts into the collection for path
FreshChunks(path, content) ==
    AddChunks(EmptyBag, path, ChunksOf(content), Len(ChunksOf(content)))

\* w: [chroma, index_state, archival]; the outcome is w after the call with
\* what the call returned (ret) or raised (exc), and how many chunks it
\* deleted and added.
Outcome(w, ret, exc, deleted, added) ==
    [w |-> w, ret |-> ret, exc |-> exc, deleted |-> deleted, added |-> added]

\* letta_up: self.letta and self.letta_agent_id; letta_raises: the post raises
index_file(w, fs, path, force, fault, letta_up, letta_raises) ==
    IF ~fs[path].exists THEN Outcome(w, 0, None, 0, 0)
    ELSE IF fault.read THEN Outcome(w, 0, Some("ReadError"), 0, 0)
    ELSE
    LET state     == w.index_state
        content   == fs[path].content
        file_hash == HashTable[content]
        file_key  == path
    IN  IF ~force /\ FilesGet(state, file_key) = Some(file_hash)
        THEN Outcome(w, 0, None, 0, 0)
        ELSE
        LET chunks   == ChunksOf(content)
            deleted  == IF fault.del THEN 0 ELSE CountFor(w.chroma, path)
            cleared  == IF fault.del THEN w.chroma ELSE DeleteFor(w.chroma, path)
            fails    == fault.add \in 1..Len(chunks)
            added    == IF fails THEN fault.add - 1 ELSE Len(chunks)
            stored   == AddChunks(cleared, path, chunks, added)
            summary  == [file |-> NameOf(path),
                         text |-> Take(content, ARCHIVAL_SUMMARY_CHARS)]
            posted   == IF letta_up /\ ~letta_raises
                        THEN w.archival (+) SetToBag({summary})
                        ELSE w.archival
        IN  IF fails
            THEN Outcome([w EXCEPT !.chroma = stored],
                         0, Some("AddError"), deleted, added)
            ELSE IF fault.save
            THEN Outcome([w EXCEPT !.chroma = stored, !.archival = posted],
                         0, Some("SaveError"), deleted, added)
            ELSE Outcome([chroma |-> stored, archival |-> posted,
                          index_state |-> FilesSet(state, file_key, file_hash)],
                         Len(chunks), None, deleted, added)

(***************************************************************************)
(* index_all                                                               *)
(***************************************************************************)
\* the files index_all visits: MEMORY.md if it exists, then sorted(glob("*.md"))
BatchFiles(fs) ==
    (IF fs[MEMORY_FILE].exists THEN << MEMORY_FILE >> ELSE << >>)
    \o Sorted({p \in DirFiles : fs[p].exists})

\* the index state kept in memory during the batch and not written per file
Tally_unsaved(acc, path, o) ==
    [acc EXCEPT !.w = [o.w EXCEPT !.index_state = acc.w.index_state],
                !.visited = Append(@, path),
                !.completed = IF o.exc = None THEN @ \cup {path} ELSE @]

\* what "try: chunks = self.index_file(...) except Exception as e" makes of
\* the outcome o of the call; acc: [w, results, visited, completed, indexed]
\* (indexed: the files whose pass went past the skip and returned chunks)
Tally(acc, path, o) ==
    IF o.exc # None
    THEN [acc EXCEPT
            !.w = o.w,
            !.visited = Append(@, path),
            !.results.errors =
                Append(@, [file |-> NameOf(path), message |-> o.exc[1]])]
    ELSE [acc EXCEPT
            !.w = o.w,
            !.visited = Append(@, path),
            !.completed = @ \cup {path},
            !.indexed = IF o.ret > 0 THEN @ \cup {path} ELSE @,
            !.results.files = IF path = MEMORY_FILE \/ o.ret > 0 THEN @ + 1 ELSE @,
            !.results.chunks = IF path = MEMORY_FILE \/ o.ret > 0 THEN @ + o.ret ELSE @]

\* one file of the batch
IndexOne(acc, fs, path, force, fault, letta_up, letta_raises) ==
    Tally(acc, path, index_file(acc.w, fs, path, force, fault, letta_up, letta_raises))

RECURSIVE IndexEach(_, _, _, _, _, _, _)
IndexEach(acc, fs, files, force, faultOf, letta_up, letta_raises) ==
    IF files = << >> THEN acc
    ELSE IndexEach(IndexOne(acc, fs, files[1], force, faultOf[files[1]],
                            letta_up, letta_raises),
                   fs, Tail(files), force, faultOf, letta_up, letta_raises)

\* results = {"files": 0, "chunks": 0, "errors": []}
BatchStart(w) ==
    [w |-> w, results |-> [files |-> 0, chunks |-> 0, errors |-> << >>],
     visited |-> << >>, completed |-> {}, indexed |-> {}]

\* "Update last full index time" and "return results"
\* tail: the load_index_state / save_index_state after the loop raises
BatchEnd(acc, tail, t) ==
    IF tail
    THEN [w |-> acc.w, raised |-> TRUE, results |-> None,
          visited |-> acc.visited, completed |-> acc.completed,
          indexed |-> acc.indexed]
    ELSE [w |-> [acc.w EXCEPT !.index_state.last_full_index = Some(t)],
          raised |-> FALSE, results |-> Some(acc.results),
          visited |-> acc.visited, completed |-> acc.completed,
          indexed |-> acc.indexed]

index_all(w, fs, force, faultOf, tail, letta_up, letta_raises, t) ==
    BatchEnd(IndexEach(BatchStart(w), fs, BatchFiles(fs), force, faultOf,
                       letta_up, letta_raises),
             tail, t)

\* the points at which a pass over a file can be cut short after it has
\* changed the collection: before the add-th chroma.add, or before
\* save_index_state; NoFault: the batch is cut between two files
CutPoints == {f \in Faults : ~f.read /\ ~f.del}

\* the batch cut during the pass over next: what that pass had done to the world
CutPass(acc, fs, next, force, cut, letta_up) ==
    [acc EXCEPT !.w = index_file(acc.w, fs, next, force, cut, letta_up, FALSE).w]

\* index_all killed (KeyboardInterrupt, SIGKILL, power loss: nothing that
\* "except Exception" catches) after k files completed their pass
index_all_interrupted(w, fs, force, k, cut, letta_up) ==
    IF cut = NoFault
    THEN IndexEach(BatchStart(w), fs, SubSeq(BatchFiles(fs), 1, k), force,
                   [p \in Paths |-> NoFault], letta_up, FALSE)
    ELSE CutPass(IndexEach(BatchStart(w), fs, SubSeq(BatchFiles(fs), 1, k), force,
                           [p \in Paths |-> NoFault], letta_up, FALSE),
                 fs, BatchFiles(fs)[k + 1], force, cut, letta_up)

(***************************************************************************)
(* The indexer                                                             *)
(***************************************************************************)
MaxWrites   == 2   \* edits of the corpus in one behaviour
MaxFaults   == 1   \* faults of the collaborators in one behaviour
MaxArchival == 1   \* passages in the archival memory
MaxClock    == 0   \* the latest time on the clock
MaxRun      == 2   \* the length to which a run of forced passes is counted

World == [chroma |-> chroma, index_state |-> index_state, archival |-> archival]

\* the faults a batch may meet: those of one of its files, and the tail's
FaultPlans ==
    {[faultOf |-> [p \in Paths |-> IF p = q THEN f ELSE NoFault], tail |-> tl] :
        q \in Paths, f \in Faults, tl \in BOOLEAN}

PlanWeight(pl) ==
    Weight(pl.faultOf[MEMORY_FILE]) + Weight(pl.faultOf["clawd/memory/a.md"])
    + Weight(pl.faultOf["clawd/memory/b.md"]) + (IF pl.tail THEN 1 ELSE 0)

Init ==
    /\ disk = [p \in Paths |-> IF p = FirstFile THEN File(DocTwo) ELSE Absent]
    /\ index_state = EmptyState
    /\ chroma = EmptyBag
    /\ archival = EmptyBag
    /\ letta \in BOOLEAN
    /\ call = NoCall
    /\ lastIndexed = [p \in Paths |-> Absent]
    /\ writes = 0
    /\ faults = 0
    /\ mem0_hits = << >>
    /\ chroma_hits = << >>
    /\ letta_hits = << >>
    /\ doc = << >>
    /\ passes = NoPasses

\* an editor writes the file
WriteFile(path, content) ==
    /\ writes < MaxWrites
    /\ disk[path] # File(content)
    /\ disk' = [disk EXCEPT ![path] = File(content)]
    /\ writes' = writes + 1
    /\ call' = NoCall
    /\ UNCHANGED << index_state, chroma, archival, letta, lastIndexed,
                    faults, recallVars, doc, passes >>

\* the file is removed
RemoveFile(path) ==
    /\ writes < MaxWrites
    /\ disk[path].exists
    /\ disk' = [disk EXCEPT ![path] = Absent]
    /\ writes' = writes + 1
    /\ call' = NoCall
    /\ UNCHANGED << index_state, chroma, archival, letta, lastIndexed,
                    faults, recallVars, doc, passes >>

\* the state after an index_file call with outcome o
IndexFileDone(o, path, force, weight) ==
    /\ BagCardinality(o.w.archival) <= MaxArchival
    /\ chroma' = o.w.chroma
    /\ index_state' = o.w.index_state
    /\ archival' = o.w.archival
    /\ call' = [op |-> "index_file", path |-> path, force |-> force,
                raised |-> o.exc # None, exc |-> o.exc, ret |-> o.ret,
                run |-> IF force /\ o.exc = None /\ disk[path].exists
                        THEN IF call.op = "index_file" /\ call.path = path
                             THEN Min(call.run + 1, MaxRun)
                             ELSE 1
                        ELSE 0]
    /\ lastIndexed' = IF o.exc = None /\ disk[path].exists
                      THEN [lastIndexed EXCEPT ![path] = disk[path]]
                      ELSE lastIndexed
    /\ faults' = faults + weight
    /\ UNCHANGED << disk, letta, writes, recallVars, doc, passes >>

\* AtlasRecall.index_file(path, force)
IndexFile(path, force, fault, letta_raises) ==
    /\ faults + Weight(fault) <= MaxFaults
    /\ letta_raises => letta
    /\ IndexFileDone(index_file(World, disk, path, force, fault, letta, letta_raises),
                     path, force, Weight(fault))

\* the state after an index_all call with outcome o
\* met: the files of the batch whose indexing met a fault
IndexAllDone(o, force, weight, met) ==
    /\ BagCardinality(o.w.archival) <= MaxArchival
    /\ chroma' = o.w.chroma
    /\ index_state' = o.w.index_state
    /\ archival' = o.w.archival
    /\ call' = [op |-> "index_all", path |-> "", force |-> force,
                raised |-> o.raised, ret |-> 0, run |-> 0,
                results |-> o.results, visited |-> o.visited,
                completed |-> o.completed, indexed |-> o.indexed, met |-> met,
                resumed |-> IF call.op = "interrupted"
                            THEN Some(call.completed) ELSE None]
    /\ lastIndexed' = [p \in Paths |->
                         IF p \in o.completed THEN disk[p] ELSE lastIndexed[p]]
    /\ faults' = faults + weight
    /\ UNCHANGED << disk, letta, writes, recallVars, doc, passes >>

\* AtlasRecall.index_all(force); t: what datetime.now() returns after the loop
IndexAll(force, plan, letta_raises, t) ==
    /\ faults + PlanWeight(plan) <= MaxFaults
    /\ \A last \in Range(index_state.last_full_index) : t >= last
    /\ letta_raises => letta
    /\ IndexAllDone(index_all(World, disk, force, plan.faultOf, plan.tail,
                              letta, letta_raises, t),
                    force, PlanWeight(plan),
                    {p \in Paths : plan.faultOf[p] # NoFault})

Next ==
    \/ \E path \in Paths, content \in DocPool : WriteFile(path, content)
    \/ \E path \in Paths : RemoveFile(path)
    \/ \E path \in Paths, force \in BOOLEAN, fault \in Faults, letta_raises \in BOOLEAN :
          IndexFile(path, force, fault, letta_raises)
    \/ \E force \in BOOLEAN, letta_raises \in BOOLEAN :
          \E plan \in FaultPlans, t \in 0..MaxClock :
              IndexAll(force, plan, letta_raises, t)

Spec == Init /\ [][Next]_vars

(***************************************************************************)
(* Properties of the indexer                                               *)
(***************************************************************************)
\* the file is on disk with the bytes the last completed pass over it saw
Unchanged(path) == disk[path].exists /\ lastIndexed[path] = disk[path]

\* the fingerprint the index state holds for path is that of its bytes on disk
FingerprintCurrent(path) ==
    FilesGet(index_state, path) = Some(get_file_hash(disk[path].content))

\* the chunks stored for path are exactly the chunks of its bytes on disk
ChunksCurrent(path) ==
    GetFor(chroma, path) = FreshChunks(path, disk[path].content)

\* C1 (idempotent indexing): when a pass over a file has completed and the
\* file still has the bytes that pass saw, index_file(path, force=False)
\* deletes no chunk, adds no chunk, leaves the collection and the persisted
\* index state as they were, and what it returns is 0.
C1_IdempotentIndexing ==
    [][\A path \in Paths :
          (/\ call'.op = "index_file" /\ call'.path = path /\ ~call'.force
           /\ Unchanged(path))
          => /\ chroma' = chroma
             /\ index_state' = index_state
             /\ ~call'.raised => call'.ret = 0
             /\ \A fault \in Faults, letta_raises \in BOOLEAN :
                   LET o == index_file(World, disk, path, FALSE, fault,
                                       letta, letta_raises)
                   IN  /\ o.deleted = 0
                       /\ o.added = 0
                       /\ o.w = World
                       /\ o.exc = None => o.ret = 0
      ]_vars

\* C1 happens: the last call was an unforced pass over an unchanged file whose
\* chunks are in the collection, and it returned 0
C1_SecondPassSkipped ==
    \E path \in Paths :
        /\ call.op = "index_file" /\ call.path = path /\ ~call.force
        /\ ~call.raised /\ call.ret = 0
        /\ Unchanged(path)
        /\ FingerprintCurrent(path)
        /\ CountFor(chroma, path) > 0

\* C2 (forced re-index replaces, not appends): after two or more forced passes
\* in a row over the same file, each of which returned, the number of chunks
\* the collection holds for the file is the number a single pass produces.
C2_ForcedReindexReplaces ==
    \A path \in Paths :
        (call.op = "index_file" /\ call.path = path /\ call.run >= 2)
        => CountFor(chroma, path) = Len(chunk_markdown(disk[path].content,
                                            DEFAULT_CHUNK_SIZE, DEFAULT_OVERLAP))

\* C3 (index-state invariant): in every reachable state, for every file on
\* disk, the stored fingerprint is the fingerprint of the bytes on disk if and
\* only if the chunks stored for the file are exactly the chunks of those bytes.
C3_IndexStateInvariant ==
    \A path \in Paths :
        disk[path].exists => (FingerprintCurrent(path) <=> ChunksCurrent(path))

\* C4 (fingerprint sensitivity): when a file was indexed and one character of
\* it has changed since, its fingerprint differs from the stored one, and an
\* index_file(path, force=False) that returns has not skipped: it returns the
\* number of chunks of the new content, the collection holds exactly those
\* chunks for the file, and the new fingerprint is stored.
C4_FingerprintSensitivity ==
    [][\A path \in Paths :
          (/\ disk[path].exists
           /\ lastIndexed[path].exists
           /\ lastIndexed[path].content = FlipChar(disk[path].content)
           /\ call'.op = "index_file" /\ call'.path = path /\ ~call'.force
           /\ ~call'.raised)
          => /\ ~FingerprintCurrent(path)
             /\ call'.ret = Len(ChunksOf(disk[path].content))
             /\ call'.ret > 0
             /\ ChunksCurrent(path)'
             /\ FingerprintCurrent(path)'
      ]_vars

\* the batch with no fault, from the state the batch started in
CleanBatch(force) ==
    index_all(World, disk, force, [q \in Paths |-> NoFault], FALSE,
              letta, FALSE, 0)

\* C5 (batch fault isolation): index_all does not abort and returns a result
\* object; a file whose indexing raises is recorded in the result's errors
\* under its name, and every other matching file is still processed, in
\* sorted order, with the outcome it has in the batch that meets no fault.
C5_BatchAlwaysReturns ==
    [][call'.op = "index_all" =>
          /\ ~call'.raised
          /\ call'.results # None
          /\ call'.visited = BatchFiles(disk)
          /\ \A p \in Range(call'.visited) \ call'.completed :
                \E e \in Range(call'.results[1].errors) : e.file = NameOf(p)
          /\ \A p \in Range(call'.visited) \ call'.met :
                /\ p \in call'.completed
                /\ GetFor(chroma', p) = GetFor(CleanBatch(call'.force).w.chroma, p)
                /\ FilesGet(index_state', p)
                     = FilesGet(CleanBatch(call'.force).w.index_state, p)
      ]_vars

\* C17 (state updated only by a completed pass): when a chunk insertion
\* raises during index_file, the call leaves the persisted index state as it
\* was before it, so that the next non-forced pass over the file re-indexes
\* it.
C17_FailedPassLeavesState ==
    [][\A path \in Paths :
          (/\ call'.op = "index_file" /\ call'.path = path
           /\ call'.exc = Some("AddError"))
          => /\ index_state' = index_state
             /\ index_file(World', disk', path, FALSE, NoFault, letta', FALSE).exc = None
             /\ index_file(World', disk', path, FALSE, NoFault, letta', FALSE).added
                  = Len(ChunksOf(disk'[path].content))
             /\ index_file(World', disk', path, FALSE, NoFault, letta', FALSE).ret > 0
      ]_vars

\* what an index_file call over path leaves alone: the fingerprint records
\* and the chunks of every other file, and the last_full_index timestamp
OthersKept(path) ==
    /\ \A p \in Paths \ {path} :
          /\ FilesGet(index_state', p) = FilesGet(index_state, p)
          /\ GetFor(chroma', p) = GetFor(chroma, p)
    /\ DOMAIN index_state'.files \subseteq DOMAIN index_state.files \cup {path}
    /\ index_state'.last_full_index = index_state.last_full_index

\* a call over a path that does not exist returns 0 and changes nothing
MissingIsNoOp(path) ==
    ~disk[path].exists =>
        /\ call'.ret = 0 /\ ~call'.raised
        /\ chroma' = chroma /\ index_state' = index_state /\ archival' = archival

\* C21 (frame of index_file), as stated: index_file(F, force) changes only
\* F's fingerprint record and the chunks of the collection attributed to F,
\* and nothing else: the records and chunks of the other files and the
\* last_full_index timestamp are unchanged, and a call on a path that does
\* not exist returns 0 and changes nothing.
C21_ChangesOnlyFile ==
    [][\A path \in Paths :
          (call'.op = "index_file" /\ call'.path = path) =>
              /\ OthersKept(path)
              /\ MissingIsNoOp(path)
              /\ archival' = archival
      ]_vars

\* C21, amended: besides F's fingerprint record and F's chunks, the call may
\* append one passage to the archival memory, the summary of F, and only
\* when the archival backend is available and the pass was not skipped.
C21_FrameWithArchival ==
    [][\A path \in Paths :
          (call'.op = "index_file" /\ call'.path = path) =>
              /\ OthersKept(path)
              /\ MissingIsNoOp(path)
              /\ archival' # archival =>
                    /\ letta /\ disk[path].exists
                    /\ ~(~call'.force /\ FingerprintCurrent(path))
                    /\ archival' = archival (+)
                          SetToBag({[file |-> NameOf(path),
                                     text |-> Take(disk[path].content,
                                                   ARCHIVAL_SUMMARY_CHARS)]})
      ]_vars

\* C21 happens: a pass over one file wrote chunks and posted its summary
\* while another file had chunks and a fingerprint record and the timestamp
\* of a full batch was set
C21_PassBesideOtherFile ==
    /\ call.op = "index_file" /\ ~call.raised /\ call.ret > 0
    /\ archival # EmptyBag
    /\ index_state.last_full_index # None
    /\ \E p \in Paths \ {call.path} :
          CountFor(chroma, p) > 0 /\ FilesGet(index_state, p) # None

(***************************************************************************)
(* Batches that are cut short: index_all over a corpus that is not edited, *)
(* with collaborators that do not fail                                     *)
(***************************************************************************)
InitBatch ==
    /\ disk \in [Paths -> {Absent} \cup {File(d) : d \in DocPool}]
    /\ index_state = EmptyState
    /\ chroma = EmptyBag
    /\ archival = EmptyBag
    /\ letta = FALSE
    /\ call = NoCall
    /\ lastIndexed = [p \in Paths |-> Absent]
    /\ writes = MaxWrites
    /\ faults = MaxFaults
    /\ mem0_hits = << >>
    /\ chroma_hits = << >>
    /\ letta_hits = << >>
    /\ doc = << >>
    /\ passes = NoPasses

\* the state after a batch that was cut short with acc as its locals
InterruptDone(acc, force) ==
    /\ BagCardinality(acc.w.archival) <= MaxArchival
    /\ chroma' = acc.w.chroma
    /\ index_state' = acc.w.index_state
    /\ archival' = acc.w.archival
    /\ call' = [op |-> "interrupted", path |-> "", force |-> force,
                raised |-> FALSE, ret |-> 0, run |-> 0,
                visited |-> acc.visited, completed |-> acc.completed]
    /\ lastIndexed' = [p \in Paths |->
                         IF p \in acc.completed THEN disk[p] ELSE lastIndexed[p]]
    /\ UNCHANGED << disk, letta, writes, faults, recallVars, doc, passes >>

\* AtlasRecall.index_all(force), killed after k files; cut: where in the pass
\* over the next file
IndexAllInterrupted(force, k, cut) ==
    /\ k <= Len(BatchFiles(disk))
    /\ cut # NoFault =>
          /\ k < Len(BatchFiles(disk))
          /\ cut.add <= Len(ChunksOf(disk[BatchFiles(disk)[k + 1]].content))
    /\ InterruptDone(index_all_interrupted(World, disk, force, k, cut, letta), force)

NextBatch ==
    \/ \E force \in BOOLEAN, letta_raises \in BOOLEAN :
          \E plan \in FaultPlans, t \in 0..MaxClock :
              IndexAll(force, plan, letta_raises, t)
    \/ \E force \in BOOLEAN, k \in 0..Cardinality(Paths), cut \in CutPoints :
          IndexAllInterrupted(force, k, cut)

SpecBatch == InitBatch /\ [][NextBatch]_vars

\* C18 (partial progress survives interruption), as stated: once index_all
\* was cut short after k files completed their pass, the index state holds
\* the fingerprints of those k files, and the next index_all(force=False)
\* over the unchanged files skips exactly those k files and indexes every
\* other file of the batch.
C18_SkipsExactlyCompleted ==
    [][(call.op = "interrupted" /\ call'.op = "index_all" /\ ~call'.force) =>
          /\ \A p \in call.completed : FingerprintCurrent(p)
          /\ ~call'.raised
          /\ call'.completed \ call'.indexed = call.completed
          /\ call'.indexed = Range(BatchFiles(disk)) \ call.completed
      ]_vars

\* C18, amended: the next index_all(force=False) skips those k files, and of
\* the other files of the batch it indexes those whose current fingerprint
\* the index state does not hold and skips the rest.
C18_SkipsCompleted ==
    [][(call.op = "interrupted" /\ call'.op = "index_all" /\ ~call'.force) =>
          /\ \A p \in call.completed : FingerprintCurrent(p)
          /\ ~call'.raised
          /\ call.completed \subseteq call'.completed \ call'.indexed
          /\ \A p \in Range(BatchFiles(disk)) \ call.completed :
                /\ p \in call'.completed
                /\ p \in call'.indexed <=> ~FingerprintCurrent(p)
      ]_vars

\* C18 happens: a batch resumed after a batch that was cut short once one of
\* its files had completed; it skipped that file and indexed another
C18_ResumedBatch ==
    /\ call.op = "index_all" /\ ~call.force
    /\ call.resumed # None
    /\ Cardinality(call.resumed[1]) = 1
    /\ call.completed \ call.indexed = call.resumed[1]
    /\ call.indexed # {}

(***************************************************************************)
(* index_file step by step: each call of a collaborator (the index state   *)
(* file, the collection, the archival memory) is a step of its own, and    *)
(* the steps of several callers interleave.  The callers index different   *)
(* files, and the corpus is not edited meanwhile.                          *)
(***************************************************************************)
InitPass ==
    /\ disk \in {[p \in Paths |->
                     CASE p = "clawd/memory/a.md" -> File(DocTwo)
                       [] p = "clawd/memory/b.md" -> File(FlipChar(DocTwo))
                       [] OTHER -> m] : m \in {Absent, File(DocTwo)}}
    /\ index_state = EmptyState
    /\ chroma = EmptyBag
    /\ archival = EmptyBag
    /\ letta = FALSE
    /\ call = NoCall
    /\ lastIndexed = [p \in Paths |-> Absent]
    /\ writes = MaxWrites
    /\ faults = 0
    /\ mem0_hits = << >>
    /\ chroma_hits = << >>
    /\ letta_hits = << >>
    /\ doc = << >>
    /\ passes = NoPasses

\* chunks = chunk_markdown(content) of the caller's file
ChunksOfPass(q) == ChunksOf(disk[passes[q].path].content)

\* index_file(path, force) up to "chunks = chunk_markdown(content)": the path
\* test, load_index_state, get_file_hash and the skip
Begin(q, path, force) ==
    /\ passes[q].pc = "idle"
    /\ \A r \in Procs \ {q} : passes[r].pc = "idle" \/ passes[r].path # path
    /\ passes' =
         [passes EXCEPT ![q] =
            IF ~disk[path].exists
            THEN [Idle EXCEPT !.pc = "done", !.path = path, !.force = force]
            ELSE IF ~force /\ FilesGet(index_state, path)
                                = Some(HashTable[disk[path].content])
            THEN [Idle EXCEPT !.pc = "done", !.path = path, !.force = force]
            ELSE [Idle EXCEPT !.pc = "get", !.path = path, !.force = force,
                              !.state = Some(index_state),
                              !.file_hash = HashTable[disk[path].content],
                              !.old = GetFor(chroma, path)]]
    /\ UNCHANGED << disk, index_state, chroma, archival, letta, call,
                    lastIndexed, writes, faults, recallVars, doc >>

\* existing = self.chroma.get(where={"source_file": str(path)})
Get(q) ==
    /\ passes[q].pc = "get"
    /\ passes' = [passes EXCEPT ![q].existing = GetFor(chroma, passes[q].path),
                                ![q].pc = IF GetFor(chroma, passes[q].path) = EmptyBag
                                          THEN "add" ELSE "delete"]
    /\ UNCHANGED << disk, index_state, chroma, archival, letta, call,
                    lastIndexed, writes, faults, recallVars, doc >>

\* self.chroma.delete(ids=existing["ids"])
Delete(q) ==
    /\ passes[q].pc = "delete"
    /\ chroma' = chroma (-) passes[q].existing
    /\ passes' = [passes EXCEPT ![q].pc = "add"]
    /\ UNCHANGED << disk, index_state, archival, letta, call,
                    lastIndexed, writes, faults, recallVars, doc >>

\* self.chroma.get or self.chroma.delete raises: "except Exception: pass"
DeleteFails(q) ==
    /\ passes[q].pc \in {"get", "delete"}
    /\ faults < MaxFaults
    /\ faults' = faults + 1
    /\ passes' = [passes EXCEPT ![q].pc = "add"]
    /\ UNCHANGED << disk, index_state, chroma, archival, letta, call,
                    lastIndexed, writes, recallVars, doc >>

\* one self.chroma.add of the loop
Add(q) ==
    /\ passes[q].pc = "add"
    /\ passes[q].i < Len(ChunksOfPass(q))
    /\ chroma' = chroma (+) SetToBag({StoredChunk(passes[q].path, ChunksOfPass(q),
                                                  passes[q].i + 1)})
    /\ passes' = [passes EXCEPT ![q].i = @ + 1]
    /\ UNCHANGED << disk, index_state, archival, letta, call,
                    lastIndexed, writes, faults, recallVars, doc >>

\* "Also add to Letta archival if available"
Post(q) ==
    /\ passes[q].pc = "add"
    /\ passes[q].i = Len(ChunksOfPass(q))
    /\ archival' =
         IF letta
         THEN archival (+) SetToBag({[file |-> NameOf(passes[q].path),
                                      text |-> Take(disk[passes[q].path].content,
                                                    ARCHIVAL_SUMMARY_CHARS)]})
         ELSE archival
    /\ BagCardinality(archival') <= MaxArchival
    /\ passes' = [passes EXCEPT ![q].pc = "save"]
    /\ UNCHANGED << disk, index_state, chroma, letta, call,
                    lastIndexed, writes, faults, recallVars, doc >>

\* state["files"][file_key] = file_hash; save_index_state(state); return len(chunks)
Save(q) ==
    /\ passes[q].pc = "save"
    /\ index_state' = FilesSet(passes[q].state[1], passes[q].path, passes[q].file_hash)
    /\ passes' = [passes EXCEPT ![q].pc = "done", ![q].ret = Len(ChunksOfPass(q))]
    /\ lastIndexed' = [lastIndexed EXCEPT ![passes[q].path] = disk[passes[q].path]]
    /\ UNCHANGED << disk, chroma, archival, letta, call,
                    writes, faults, recallVars, doc >>

\* self.chroma.add or save_index_state raises, and index_file with it
Raise(q) ==
    /\ \/ passes[q].pc = "add" /\ passes[q].i < Len(ChunksOfPass(q))
       \/ passes[q].pc = "save"
    /\ faults < MaxFaults
    /\ faults' = faults + 1
    /\ passes' = [passes EXCEPT ![q].pc = "done",
                                ![q].exc = IF passes[q].pc = "add"
                                           THEN Some("AddError") ELSE Some("SaveError")]
    /\ UNCHANGED << disk, index_state, chroma, archival, letta, call,
                    lastIndexed, writes, recallVars, doc >>

\* the caller has the call's result
Return(q) ==
    /\ passes[q].pc = "done"
    /\ passes' = [passes EXCEPT ![q] = Idle]
    /\ UNCHANGED << disk, index_state, chroma, archival, letta, call,
                    lastIndexed, writes, faults, recallVars, doc >>

NextPass ==
    \/ \E q \in Procs, path \in Paths, force \in BOOLEAN : Begin(q, path, force)
    \/ \E q \in Procs : Get(q)
    \/ \E q \in Procs : Delete(q)
    \/ \E q \in Procs : DeleteFails(q)
    \/ \E q \in Procs : Add(q)
    \/ \E q \in Procs : Post(q)
    \/ \E q \in Procs : Save(q)
    \/ \E q \in Procs : Raise(q)
    \/ \E q \in Procs : Return(q)

SpecPass == InitPass /\ [][NextPass]_vars

\* the chunks of its file that the caller's pass has added after n adds
NewChunks(q, n) == AddChunks(EmptyBag, passes[q].path, ChunksOfPass(q), n)

\* C19 (query concurrent with indexing): at every point of an index_file
\* pass over a file (every state of the pass is a point at which the
\* self.chroma.query of a concurrent recall may read the collection), the
\* chunks the collection holds for the file are exactly the chunks it held
\* when the pass began, or none, or only chunks of the new pass; never old
\* and new chunks together.
C19_OldNoneOrNew ==
    \A q \in Procs :
        passes[q].state # None =>
            \/ GetFor(chroma, passes[q].path) = passes[q].old
            \/ GetFor(chroma, passes[q].path) = EmptyBag
            \/ \E n \in 0..Len(ChunksOfPass(q)) :
                  GetFor(chroma, passes[q].path) = NewChunks(q, n)

\* C20 (no lost index-state update): once two index_file passes over two
\* different files, interleaved in any order, have both completed, the
\* persisted index state holds the new fingerprints of both files.
C20_NoLostUpdate ==
    \A q, r \in Procs :
        (/\ q # r
         /\ passes[q].pc = "done" /\ passes[q].exc = None /\ passes[q].ret > 0
         /\ passes[r].pc = "done" /\ passes[r].exc = None /\ passes[r].ret > 0
         /\ passes[q].path # passes[r].path)
        => /\ FilesGet(index_state, passes[q].path) = Some(passes[q].file_hash)
           /\ FilesGet(index_state, passes[r].path) = Some(passes[r].file_hash)

(***************************************************************************)
(* The chunker on its own: chunk_markdown applied to a drawn document      *)
(***************************************************************************)
MaxLines == 4   \* lines of a drawn document

\* the lines documents are drawn from: a blank line, headers of three
\* levels, and body lines of 120 and 250 characters
LinePool ==
    { << >>,
      << Run("#", 1), Run(" ", 1), Run("A", 1) >>,
      << Run("#", 2), Run(" ", 1), Run("B", 1) >>,
      << Run("#", 3), Run(" ", 1), Run("C", 1) >>,
      Rep("x", 120),
      Rep("y", 250) }

ChunkSizes == {1, 300, DEFAULT_CHUNK_SIZE}
Overlaps == {0, DEFAULT_OVERLAP}

Documents == {JoinSep(ls, Rep(NL, 1)) : ls \in SeqsUpTo(LinePool, MaxLines)}

NoChunks == [called |-> FALSE, content |-> << >>, chunk_size |-> 0,
             overlap |-> 0, chunks |-> << >>]

InitChunk ==
    /\ disk = [p \in Paths |-> Absent]
    /\ index_state = EmptyState
    /\ chroma = EmptyBag
    /\ archival = EmptyBag
    /\ letta = FALSE
    /\ call = NoCall
    /\ lastIndexed = [p \in Paths |-> Absent]
    /\ writes = 0
    /\ faults = 0
    /\ mem0_hits = << >>
    /\ chroma_hits = << >>
    /\ letta_hits = << >>
    /\ passes = NoPasses
    /\ \E content \in Documents, chunk_size \in ChunkSizes, overlap \in Overlaps :
          doc = [NoChunks EXCEPT !.content = content, !.chunk_size = chunk_size,
                                 !.overlap = overlap]

\* chunks = chunk_markdown(content, chunk_size, overlap)
ChunkMarkdown ==
    /\ ~doc.called
    /\ doc' = [doc EXCEPT !.called = TRUE,
                          !.chunks = chunk_markdown(doc.content, doc.chunk_size,
                                                    doc.overlap)]
    /\ UNCHANGED << disk, index_state, chroma, archival, letta, call,
                    lastIndexed, writes, faults, recallVars, passes >>

NextChunk == ChunkMarkdown

SpecChunk == InitChunk /\ [][NextChunk]_vars

\* the stretches lines[a..b] of the document whose join is the text
Stretches(lines, text) ==
    {ab \in (1..Len(lines)) \X (1..Len(lines)) :
        /\ ab[1] <= ab[2]
        /\ JoinSep(SubSeq(lines, ab[1], ab[2]), Rep(NL, 1)) = text}

\* chunks i.. are stretches of the document that start and end no earlier
\* than a and b, and with the lines in covered they hold every line of need
RECURSIVE InOrderFrom(_, _, _, _, _, _, _)
InOrderFrom(lines, chunks, i, a, b, covered, need) ==
    IF i > Len(chunks) THEN need \subseteq covered
    ELSE \E ab \in Stretches(lines, chunks[i].text) :
            /\ ab[1] >= a
            /\ ab[2] >= b
            /\ InOrderFrom(lines, chunks, i + 1, ab[1], ab[2],
                           covered \cup (ab[1]..ab[2]), need)

NonBlank(lines) == {j \in 1..Len(lines) : Strip(lines[j]) # << >>}

\* C10 (chunk coverage): for every document and chunk_size, every chunk
\* chunk_markdown returns is a stretch of consecutive lines of the document,
\* the stretches start and end in document order, and every non-blank line
\* of the document lies in at least one of them.
C10_ChunkCoverage ==
    doc.called =>
        LET lines == Split(doc.content)
        IN  /\ InOrderFrom(lines, doc.chunks, 1, 1, 1, {}, NonBlank(lines))
            /\ \A j \in NonBlank(lines) :
                  \E i \in 1..Len(doc.chunks) :
                      \E k \in 1..Len(Split(doc.chunks[i].text)) :
                          Split(doc.chunks[i].text)[k] = lines[j]

\* C10 happens: a document of four non-blank lines was cut into several
\* chunks, two of which share a line
C10_SeveralChunks ==
    /\ doc.called
    /\ Cardinality(NonBlank(Split(doc.content))) = MaxLines
    /\ Len(doc.chunks) >= 3
    /\ doc.chunk_size = 300
    /\ \E i \in 1..(Len(doc.chunks) - 1) :
          Split(doc.chunks[i].text)[Len(Split(doc.chunks[i].text))]
            = Split(doc.chunks[i + 1].text)[1]

\* C11 (overlap invariant): for every overlap k > 0 and every document cut
\* into more than one chunk, each chunk after the first begins with at least
\* min(k, number of lines of the previous chunk) lines that are the trailing
\* lines of the previous chunk.
C11_OverlapInvariant ==
    (doc.called /\ doc.overlap > 0 /\ Len(doc.chunks) > 1) =>
        \A i \in 2..Len(doc.chunks) :
            LET prev == Split(doc.chunks[i - 1].text)
                cur  == Split(doc.chunks[i].text)
                m    == Min(doc.overlap, Len(prev))
            IN  /\ Len(cur) >= m
                /\ SubSeq(cur, 1, m) = SubSeq(prev, Len(prev) - m + 1, Len(prev))

\* current_headers once the loop has processed lines[1..j]
HeaderStackAt(lines, j) ==
    ChunkLoop(SubSeq(lines, 1, j), ChunkStart, DEFAULT_CHUNK_SIZE).current_headers

\* ' > '.join(stack)
HeaderPath(stack) ==
    JoinSep(stack, << Run(" ", 1), Run(">", 1), Run(" ", 1) >>)

\* C12 (header path of a chunk): every chunk chunk_markdown emits, whether
\* flushed by a heading, by reaching chunk_size or at the end of the input,
\* carries as headers the header stack in effect at the chunk's first line.
C12_HeadersAtFirstLine ==
    doc.called =>
        \A i \in 1..Len(doc.chunks) :
            \E ab \in Stretches(Split(doc.content), doc.chunks[i].text) :
                doc.chunks[i].headers
                  = HeaderPath(HeaderStackAt(Split(doc.content), ab[1]))

\* C13 (no empty chunk): for every document, the empty one and those made
\* of blank lines only included, no chunk chunk_markdown returns has empty
\* text.
C13_NoEmptyChunk ==
    doc.called => \A i \in 1..Len(doc.chunks) : doc.chunks[i].text # << >>

\* line.startswith('#'), and the level and header_text of such a line
IsHeading(line) == StartsWith(line, "#")
HeadingLevel(line) == StrLen(line) - StrLen(LStrip(line, "#"))
HeadingText(line) == Strip(LStrip(line, "#"))

\* the headings before line j that enclose it: shallower than it, with no
\* heading as shallow or shallower between them and line j
Enclosing(lines, j) ==
    {i \in 1..(j - 1) :
        /\ IsHeading(lines[i])
        /\ HeadingLevel(lines[i]) < HeadingLevel(lines[j])
        /\ \A k \in (i + 1)..(j - 1) :
              IsHeading(lines[k]) => HeadingLevel(lines[k]) > HeadingLevel(lines[i])}

\* C15 (header stack update): after chunk_markdown has processed a heading
\* line of level n, the header stack ends with that heading, holds no earlier
\* heading of level >= n, and still holds the enclosing shallower headings;
\* for every sequence of headings, those starting at level 2 or 3 and those
\* skipping a level included.
C15_HeaderStackUpdate ==
    doc.called =>
        \A j \in 1..Len(Split(doc.content)) :
            IsHeading(Split(doc.content)[j]) =>
                LET lines == Split(doc.content)
                    stack == HeaderStackAt(lines, j)
                IN  /\ stack # << >>
                    /\ stack[Len(stack)] = HeadingText(lines[j])
                    /\ \A i \in 1..(j - 1) :
                          (/\ IsHeading(lines[i])
                           /\ HeadingLevel(lines[i]) >= HeadingLevel(lines[j]))
                          => \A k \in 1..(Len(stack) - 1) :
                                stack[k] # HeadingText(lines[i])
                    /\ \A i \in Enclosing(lines, j) :
                          \E k \in 1..(Len(stack) - 1) :
                              stack[k] = HeadingText(lines[i])

(***************************************************************************)
(* recall and recall_unified                                               *)
(* Scores and distances are kept in hundredths: 0.7 is 70, 1 is 100.       *)
(***************************************************************************)
MEM0_MISSING_SCORE == 0      \* r.get("score", 0)
UNIFIED_DEFAULT_SCORE == 50  \* item.get("score", 0.5)
UNIFIED_DEFAULT_DISTANCE == 50  \* item.get("distance", 0.5)
LETTA_SCORE == 70            \* "score": 0.7
MAX_DISTANCE == 100          \* min(distance, 1)
RESULT_TEXT_CHARS == 500     \* item["text"][:500]
DEDUP_PREFIX_CHARS == 100    \* item["text"][:100]
OVERFETCH == 2               \* limit * 2

\* d.get(key, default), for a key that is None when d lacks it
GetOr(value, default) == IF value = None THEN default ELSE value[1]

\* s[:n] of a list
FirstN(s, n) == SubSeq(s, 1, Min(n, Len(s)))

\* what the backends do during one query
\*   mem0:   "ok" | "raise" (self.mem0.search raises)
\*   chroma: "ok" | "raise" (self.chroma.query raises)
\*           | "bad_meta" (the last document returned has no metadata: meta.get raises)
\*   letta:  "ok" | "non200" (a status other than 200) | "raise" (self.letta.get raises)
Statuses ==
    [mem0 : {"ok", "raise"}, chroma : {"ok", "raise", "bad_meta"},
     letta : {"ok", "non200", "raise"}]

AllOk == [mem0 |-> "ok", chroma |-> "ok", letta |-> "ok"]

\* the documents the loop over chroma_results appends before it ends or raises
ChromaRead(docs, st) ==
    CASE st.chroma = "ok" -> Len(docs)
      [] st.chroma = "raise" -> 0
      [] st.chroma = "bad_meta" -> IF Len(docs) > 0 THEN Len(docs) - 1 ELSE 0

ChromaRaised(docs, st) ==
    st.chroma = "raise" \/ (st.chroma = "bad_meta" /\ Len(docs) > 0)

\* hits: [mem0, chroma, letta], what each backend holds for the query, in the
\* order it returns them; letta_up: self.letta and self.letta_agent_id
recall(hits, letta_up, limit, st) ==
    LET mem0_list == FirstN(hits.mem0, limit)
        docs      == FirstN(hits.chroma, limit)
        items     == FirstN(hits.letta, limit)
    IN  [mem0 |->
            IF st.mem0 = "ok"
            THEN [i \in 1..Len(mem0_list) |->
                    [text   |-> mem0_list[i].memory,
                     score  |-> Some(GetOr(mem0_list[i].score, MEM0_MISSING_SCORE)),
                     source |-> "mem0"]]
            ELSE << >>,
         mem0_error |-> IF st.mem0 = "ok" THEN None ELSE Some("mem0: search failed"),
         chroma |->
            [i \in 1..ChromaRead(docs, st) |->
                [text     |-> docs[i].document,
                 file     |-> docs[i].source_file,
                 headers  |-> docs[i].headers,
                 distance |-> Some(docs[i].distance),
                 source   |-> "chroma"]],
         chroma_error |->
            IF ChromaRaised(docs, st) THEN Some("chroma: query failed") ELSE None,
         letta |->
            IF letta_up /\ st.letta = "ok"
            THEN [i \in 1..Len(items) |-> [text |-> items[i].text, source |-> "letta"]]
            ELSE << >>,
         letta_error |->
            IF letta_up /\ st.letta = "raise" THEN Some("letta: get failed") ELSE None]

\* "Normalize and combine"
Normalize(raw) ==
    [i \in 1..Len(raw.mem0) |->
        [text   |-> raw.mem0[i].text,
         source |-> << "mem0" >>,
         score  |-> GetOr(raw.mem0[i].score, UNIFIED_DEFAULT_SCORE)]]
    \o [i \in 1..Len(raw.chroma) |->
        [text   |-> Take(raw.chroma[i].text, RESULT_TEXT_CHARS),
         source |-> << "chroma", NameOf(raw.chroma[i].file) >>,
         headers |-> raw.chroma[i].headers,
         score  |-> 100 - Min(GetOr(raw.chroma[i].distance, UNIFIED_DEFAULT_DISTANCE),
                              MAX_DISTANCE)]]
    \o [i \in 1..Len(raw.letta) |->
        [text   |-> Take(raw.letta[i].text, RESULT_TEXT_CHARS),
         source |-> << "letta" >>,
         score  |-> LETTA_SCORE]]

\* an insertion that puts x before the results of its own score
RECURSIVE InsertByScore_unstable(_, _)
InsertByScore_unstable(sorted, x) ==
    IF sorted = << >> THEN << x >>
    ELSE IF sorted[1].score > x.score
         THEN << sorted[1] >> \o InsertByScore_unstable(Tail(sorted), x)
         ELSE << x >> \o sorted

\* x put into a list sorted by falling score, behind the results of its own score
RECURSIVE InsertByScore(_, _)
InsertByScore(sorted, x) ==
    IF sorted = << >> THEN << x >>
    ELSE IF sorted[1].score >= x.score
         THEN << sorted[1] >> \o InsertByScore(Tail(sorted), x)
         ELSE << x >> \o sorted

\* the sort left out
SortedByScore_unsorted(items) == items

\* sorted(all_results, key=score, reverse=True): a stable sort
RECURSIVE SortedByScore(_)
SortedByScore(items) ==
    IF items = << >> THEN << >>
    ELSE InsertByScore(SortedByScore(SubSeq(items, 1, Len(items) - 1)),
                       items[Len(items)])

\* hashlib.md5(item["text"][:100].encode()).hexdigest()
TextHash(item) == md5(Take(item.text, DEDUP_PREFIX_CHARS))

\* the loop that fills unique, given the hashes seen so far
RECURSIVE Dedupe(_, _)
Dedupe(items, seen) ==
    IF items = << >> THEN << >>
    ELSE IF TextHash(items[1]) \in seen
         THEN Dedupe(Tail(items), seen)
         ELSE << items[1] >> \o Dedupe(Tail(items), seen \cup {TextHash(items[1])})

\* all_results, and unique before "return unique[:limit]"
AllResults(hits, letta_up, limit, st) ==
    Normalize(recall(hits, letta_up, limit * OVERFETCH, st))

Unique(all_results) == Dedupe(SortedByScore(all_results), {})

\* the whole of unique returned
recall_unified_untruncated(hits, letta_up, limit, st) ==
    Unique(AllResults(hits, letta_up, limit, st))

recall_unified(hits, letta_up, limit, st) ==
    FirstN(Unique(AllResults(hits, letta_up, limit, st)), limit)

(***************************************************************************)
(* The recall pipeline on its own: one query against drawn backends        *)
(***************************************************************************)
MaxHits   == 6   \* results the three backends hold for the query, together
MaxMem0   == 2   \* results the fact memory holds for the query
MaxLetta  == 1   \* passages the archival memory holds for the query
MaxLimit  == 3   \* the largest limit a query is made with

\* texts: P1 and P1Long agree on their first 100 characters and differ after
\* them; P1Long is longer than 500 characters; P2 and P3 differ from the start
P1     == Cat(Rep("x", 100), Rep("y", 10))
P1Long == Cat(Rep("x", 100), Rep("z", 450))
P2     == Rep("y", 60)
P3     == Rep("z", 60)

\* results of self.mem0.search: score None when the result has no "score" key;
\* the score is whatever the fact memory's own vector store reports (a cosine
\* similarity may be negative)
Mem0Pool ==
    { [memory |-> P1Long, score |-> Some(-20)],
      [memory |-> P2,     score |-> Some(70)],
      [memory |-> P3,     score |-> None] }

ChromaHit(text, distance) ==
    [document |-> text, source_file |-> FirstFile, headers |-> << >>,
     distance |-> distance]

\* documents of the collection with their distance to the query, nearest first
ChromaPool ==
    << ChromaHit(P1, 30), ChromaHit(P2, 30), ChromaHit(P2, 150), ChromaHit(P3, 150) >>

LettaPool == { [text |-> P1Long], [text |-> P2] }

\* k copies of hit h
Copies(h, k) == [i \in 1..k |-> h]

\* what the collection holds: some copies of each document of the pool (a file
\* indexed more than once leaves copies), nearest first
ChromaHoldings(max) ==
    { Copies(ChromaPool[1], c[1]) \o Copies(ChromaPool[2], c[2])
      \o Copies(ChromaPool[3], c[3]) \o Copies(ChromaPool[4], c[4]) :
        c \in {d \in [1..4 -> 0..max] : d[1] + d[2] + d[3] + d[4] <= max} }

Hits == [mem0 |-> mem0_hits, chroma |-> chroma_hits, letta |-> letta_hits]

NoQuery == [op |-> "none", limit |-> 0, status |-> AllOk,
            raw |-> recall([mem0 |-> << >>, chroma |-> << >>, letta |-> << >>],
                           FALSE, 0, AllOk),
            all_results |-> << >>, unique |-> << >>, ret |-> << >>]

InitRecall ==
    /\ disk = [p \in Paths |-> Absent]
    /\ index_state = EmptyState
    /\ chroma = EmptyBag
    /\ archival = EmptyBag
    /\ lastIndexed = [p \in Paths |-> Absent]
    /\ writes = 0
    /\ faults = 0
    /\ doc = << >>
    /\ passes = NoPasses
    /\ call = NoQuery
    /\ letta \in BOOLEAN
    /\ mem0_hits \in SeqsUpTo(Mem0Pool, MaxMem0)
    /\ letta_hits \in (IF letta THEN SeqsUpTo(LettaPool, MaxLetta) ELSE {<< >>})
    /\ chroma_hits \in ChromaHoldings(MaxHits - Len(mem0_hits) - Len(letta_hits))

\* results = self.recall(query, limit)
Recall(limit, st) ==
    /\ call.op = "none"
    /\ call' = [NoQuery EXCEPT !.op = "recall", !.limit = limit, !.status = st,
                               !.raw = recall(Hits, letta, limit, st)]
    /\ UNCHANGED << disk, index_state, chroma, archival, letta, lastIndexed,
                    writes, faults, recallVars, doc, passes >>

\* results = self.recall_unified(query, limit)
RecallUnified(limit, st) ==
    /\ call.op = "none"
    /\ call' = [op |-> "recall_unified", limit |-> limit, status |-> st,
                raw |-> recall(Hits, letta, limit * OVERFETCH, st),
                all_results |-> AllResults(Hits, letta, limit, st),
                unique |-> Unique(AllResults(Hits, letta, limit, st)),
                ret |-> recall_unified(Hits, letta, limit, st)]
    /\ UNCHANGED << disk, index_state, chroma, archival, letta, lastIndexed,
                    writes, faults, recallVars, doc, passes >>

NextRecall ==
    \/ \E limit \in 1..MaxLimit, st \in Statuses : Recall(limit, st)
    \/ \E limit \in 1..MaxLimit, st \in Statuses : RecallUnified(limit, st)

SpecRecall == InitRecall /\ [][NextRecall]_vars

(***************************************************************************)
(* Properties of the recall pipeline                                       *)
(***************************************************************************)
\* item["text"][:100]
Prefix(item) == Take(item.text, DEDUP_PREFIX_CHARS)

\* the limit the backends were queried with during the last call
QueryLimit ==
    IF call.op = "recall_unified" THEN call.limit * OVERFETCH ELSE call.limit

\* the backends that raised or were unavailable during the last call
Mem0Failed   == call.status.mem0 # "ok"
ChromaFailed == ChromaRaised(FirstN(chroma_hits, QueryLimit), call.status)
LettaFailed  == ~letta \/ call.status.letta # "ok"

\* the texts of the results of one backend among all_results, in order
TextsFrom(all_results, backend) ==
    LET idx == {k \in 1..Len(all_results) : all_results[k].source[1] = backend}
        F[k \in 0..Len(all_results)] ==
            IF k = 0 THEN << >>
            ELSE IF k \in idx THEN Append(F[k - 1], all_results[k].text) ELSE F[k - 1]
    IN  F[Len(all_results)]

\* C6 (backend fault isolation in recall): after recall or recall_unified,
\* every backend that raised or was unavailable has contributed an empty list
\* and has its error field set, and every backend that succeeded has
\* contributed all the results it returned.
C6_RecallFaultIsolation ==
    call.op \in {"recall", "recall_unified"} =>
        /\ Mem0Failed => call.raw.mem0 = << >> /\ call.raw.mem0_error # None
        /\ ChromaFailed => call.raw.chroma = << >> /\ call.raw.chroma_error # None
        /\ LettaFailed => call.raw.letta = << >> /\ call.raw.letta_error # None
        /\ ~Mem0Failed => Len(call.raw.mem0) = Len(FirstN(mem0_hits, QueryLimit))
        /\ ~ChromaFailed => Len(call.raw.chroma) = Len(FirstN(chroma_hits, QueryLimit))
        /\ ~LettaFailed => Len(call.raw.letta) = Len(FirstN(letta_hits, QueryLimit))
        /\ call.op = "recall_unified" =>
              Len(call.all_results)
                = Len(call.raw.mem0) + Len(call.raw.chroma) + Len(call.raw.letta)

\* C7 (dedup correctness): of the merged results that share the first 100
\* characters of their text, unique (the list before truncation) keeps
\* exactly one, a result of the group whose score is the greatest of the
\* group; no two returned results share their first 100 characters.
C7_DedupCorrectness ==
    call.op = "recall_unified" =>
        LET all == call.all_results
            unique == call.unique
            ret == call.ret
        IN  /\ \A i \in 1..Len(all) :
                  LET group == {k \in 1..Len(all) : Prefix(all[k]) = Prefix(all[i])}
                      kept  == {j \in 1..Len(unique) : Prefix(unique[j]) = Prefix(all[i])}
                  IN  /\ Cardinality(kept) = 1
                      /\ \A j \in kept :
                            /\ \E k \in group : all[k] = unique[j]
                            /\ \A k \in group : unique[j].score >= all[k].score
            /\ \A j \in 1..Len(unique) : \E k \in 1..Len(all) : all[k] = unique[j]
            /\ \A i, j \in 1..Len(ret) : i # j => Prefix(ret[i]) # Prefix(ret[j])

\* C7 happens: two merged results with different texts share their first 100
\* characters, the one merged first has the smaller score, and the other one
\* is returned
C7_LaterHigherScoreKept ==
    /\ call.op = "recall_unified"
    /\ \E a, b \in 1..Len(call.all_results) :
          /\ a < b
          /\ Prefix(call.all_results[a]) = Prefix(call.all_results[b])
          /\ call.all_results[a].text # call.all_results[b].text
          /\ call.all_results[a].score < call.all_results[b].score
          /\ \E j \in 1..Len(call.ret) : Prefix(call.ret[j]) = Prefix(call.all_results[b])
    /\ Len(call.ret) >= 2

\* the first-100-character prefixes of everything the backends hold
HeldPrefixes ==
    {Take(mem0_hits[i].memory, DEDUP_PREFIX_CHARS) : i \in 1..Len(mem0_hits)}
    \cup {Take(chroma_hits[i].document, DEDUP_PREFIX_CHARS) : i \in 1..Len(chroma_hits)}
    \cup {Take(letta_hits[i].text, DEDUP_PREFIX_CHARS) : i \in 1..Len(letta_hits)}

\* the first-100-character prefixes of the results merged by the last call
MergedPrefixes == {Prefix(call.all_results[k]) : k \in 1..Len(call.all_results)}

\* C8 (result count), as claimed: when the backends together hold more than
\* limit results with pairwise distinct first-100-character prefixes,
\* recall_unified(query, limit) returns exactly limit results.  Stated of the
\* calls during which every backend answers.
C8_ExactlyLimitOfHeld ==
    (/\ call.op = "recall_unified"
     /\ call.status = AllOk
     /\ Cardinality(HeldPrefixes) > call.limit)
    => Len(call.ret) = call.limit

\* C8 (result count), amended: when the results the backends returned to the
\* queries made with limit * 2 hold more than limit pairwise distinct
\* first-100-character prefixes, recall_unified(query, limit) returns exactly
\* limit results; when they hold at most limit, it returns one result for each.
C8_ExactlyLimitOfMerged ==
    call.op = "recall_unified" =>
        /\ Cardinality(MergedPrefixes) > call.limit => Len(call.ret) = call.limit
        /\ Cardinality(MergedPrefixes) <= call.limit
              => Len(call.ret) = Cardinality(MergedPrefixes)

\* C8 happens: more distinct prefixes were merged than the limit of 2 asked for
C8_MoreThanLimitMerged ==
    /\ call.op = "recall_unified"
    /\ call.limit = 2
    /\ Cardinality(MergedPrefixes) > call.limit
    /\ Len(call.all_results) > Cardinality(MergedPrefixes)
    /\ Len(call.ret) = 2

\* the place of the first result equal to x among all_results
FirstIndex(all_results, x) ==
    CHOOSE k \in 1..Len(all_results) :
        /\ all_results[k] = x
        /\ \A m \in 1..(k - 1) : all_results[m] # x

\* C9 (ranking order and tie-break): the results are merged fact memory
\* first, then vector store, then archival memory, each in the order its
\* backend returned them; the sequence recall_unified returns is in
\* non-increasing score order, and of two returned results with equal scores
\* the one merged first comes first.  (The returned sequence is a function of
\* the backends' responses and the limit, so equal responses give equal
\* sequences.)
C9_RankingOrder ==
    call.op = "recall_unified" =>
        LET all == call.all_results
            ret == call.ret
        IN  /\ TextsFrom(all, "mem0")
                 = [i \in 1..Len(call.raw.mem0) |-> call.raw.mem0[i].text]
            /\ TextsFrom(all, "chroma")
                 = [i \in 1..Len(call.raw.chroma) |->
                        Take(call.raw.chroma[i].text, RESULT_TEXT_CHARS)]
            /\ TextsFrom(all, "letta")
                 = [i \in 1..Len(call.raw.letta) |->
                        Take(call.raw.letta[i].text, RESULT_TEXT_CHARS)]
            /\ \A a, b \in 1..Len(all) :
                  a < b => ~(all[a].source[1] = "letta" /\ all[b].source[1] # "letta")
                           /\ ~(all[a].source[1] = "chroma" /\ all[b].source[1] = "mem0")
            /\ \A i \in 1..(Len(ret) - 1) : ret[i].score >= ret[i + 1].score
            /\ \A i, j \in 1..Len(ret) :
                  (i < j /\ ret[i].score = ret[j].score)
                  => FirstIndex(all, ret[i]) < FirstIndex(all, ret[j])

\* C9 happens: three results are returned, the first with a greater score than
\* the other two, which have equal scores and come from different backends
C9_TieInMergeOrder ==
    /\ call.op = "recall_unified"
    /\ Len(call.ret) = 3
    /\ call.ret[1].score > call.ret[2].score
    /\ call.ret[2].score = call.ret[3].score
    /\ call.ret[2].source # call.ret[3].source


\* C14 (score range): every result recall_unified returns has a score in
\* [0, 1] (0..100 hundredths): vector hits of any distance >= 0, archival
\* hits, and fact-memory hits whatever score the backend reports or omits.
C14_ScoreRange ==
    call.op = "recall_unified" =>
        \A k \in 1..Len(call.ret) :
            call.ret[k].score >= 0 /\ call.ret[k].score <= MAX_DISTANCE


\* C16 (fact-memory default score): in recall_unified a fact-memory hit whose
\* backend response carries a score is ranked with that score, and one whose
\* response carries no score is ranked with the neutral default 0.5.
C16_Mem0DefaultScore ==
    (call.op = "recall_unified" /\ call.status.mem0 = "ok") =>
        \A k \in 1..Len(call.raw.mem0) :
            /\ call.all_results[k].source = << "mem0" >>
            /\ call.all_results[k].text = mem0_hits[k].memory
            /\ call.all_results[k].score
                 = (IF mem0_hits[k].score # None THEN mem0_hits[k].score[1]
                    ELSE UNIFIED_DEFAULT_SCORE)

=============================================================================
